---- MODULE Spec2Model ----
(***************************************************************************)
(* Model of src/server.js: the Express application of the family-schedule  *)
(* backend.  The state is the content of the four MongoDB collections, the *)
(* clock, the session tokens the server has handed out, and the last HTTP  *)
(* exchange (request, handler reached, response).  Every route is one      *)
(* action that runs the middleware and the whole handler.                  *)
(*                                                                         *)
(* Request values are well-typed scalars: usernames, passwords, viewer     *)
(* names and access codes are strings (a code is the sequence of its       *)
(* characters), ids are ObjectIds.  The storage layer answers every        *)
(* operation (no I/O failure).  The route actions run a whole handler in   *)
(* one step; the Find and Save actions run a handler in two steps, around  *)
(* its await between reading and writing, so that requests interleave.     *)
(***************************************************************************)
EXTENDS Integers, Sequences, FiniteSets, TLC

VARIABLES
    users,      \* the User collection, in insertion order
    records,    \* the Class, Exam and Note collections, in insertion order
    nextId,     \* number of the next ObjectId given to a schedule record
    now,        \* the clock, in days
    sessions,   \* tokens returned by successful logins, with the owner logged in
    createdBy,  \* for each record ever created, the owner of the session that sent it
    req,        \* the last request received
    handler,    \* the route handler that ran for it ("none": rejected by middleware)
    resp,       \* the response sent for it
    inflight    \* per connection, the request that has read the store and awaits its write

vars == <<users, records, nextId, now, sessions, createdBy, req, handler, resp, inflight>>

----------------------------------------------------------------------------
(* Bounds of the model *)

MaxRecords == 1     \* schedule records ever created
MaxSessions == 2    \* session tokens handed out
MaxDraw == 1        \* MaxDraw + 1 different outcomes of the random generator
MaxTicks == 1       \* clock advances, each of one token lifetime
MaxInflight == 2    \* connections: requests in flight at the same time

(* Request values *)

Usernames == {"alice", "bob"}
Passwords == {"pw1", "pw2"}
FirstPassword == "pw1"
Names == {"Mom", "Dad"}
NoName == ""                        \* a name that is undefined or empty (falsy)
Kinds == {"Class", "Exam", "Note"}

----------------------------------------------------------------------------
(* Values *)

ObjectId(coll, n) == <<coll, n>>
NoId == <<"none", 0>>
UserIds == {ObjectId("User", n) : n \in 1..Cardinality(Usernames)}
RecordIds == {ObjectId("Record", n) : n \in 1..MaxRecords}

\* the connections of the server, and a connection with no request awaiting a write
Conns == 1..MaxInflight
Idle == [op |-> "idle"]

\* res.status(s).json(body); a JSON array a is carried as [array |-> a]
Json(status, body) == [status |-> status, body |-> body]
NoResp == Json(0, [none |-> TRUE])

\* the option type of findOne / jwt.verify: <<>> is null (or a throw), <<v>> is v
Null == <<>>

----------------------------------------------------------------------------
(* Helpers: access codes (generateCode) *)

\* the alphabet with nothing left out
charsUnfiltered ==
    << "A", "B", "C", "D", "E", "F", "G", "H", "I", "J", "K", "L", "M", "N", "O", "P",
       "Q", "R", "S", "T", "U", "V", "W", "X", "Y", "Z", "0", "1", "2", "3", "4", "5" >>

\* const chars = 'ABCDEFGHJKLMNPQRSTUVWXYZ23456789'
chars ==
    << "A", "B", "C", "D", "E", "F", "G", "H", "J", "K", "L", "M", "N", "P", "Q", "R",
       "S", "T", "U", "V", "W", "X", "Y", "Z", "2", "3", "4", "5", "6", "7", "8", "9" >>

CodeLen == 5

\* the values Math.floor(Math.random() * chars.length) takes during one call:
\* one index in 0..chars.length-1 per character
Draw(k) == [i \in 1..CodeLen |-> (k * (Len(chars) - 1) + (i - 1)) % Len(chars)]
RandomDraws == {Draw(k) : k \in 0..MaxDraw}

RECURSIVE generateLoop(_, _, _)
generateLoop(i, result, rnd) ==
    IF i < CodeLen
    THEN generateLoop(i + 1, result \o <<chars[rnd[i + 1] + 1]>>, rnd)
    ELSE result

generateCode(rnd) == generateLoop(0, <<>>, rnd)

\* one call of the generator for each value of its first index, so that every
\* character of chars is drawn at every position
AllDraws == {Draw(k) : k \in 0..(Len(chars) - 1)}

EmptyCode == <<>>                               \* the empty string
UnknownCode == <<"0", "0", "0", "0", "0">>      \* a string no owner can hold
CodeInputs == {generateCode(rnd) : rnd \in RandomDraws} \cup {UnknownCode, EmptyCode}

----------------------------------------------------------------------------
(* External primitives: bcryptjs and jsonwebtoken, as ideal primitives *)

bcryptHash(password) == <<"bcrypt", password>>
bcryptCompare(password, hash) == hash = bcryptHash(password)

JWT_SECRET == "JWT_SECRET"
AttackerKey == "attacker"
TokenTTL == 7

\* the signature of a token is a MAC of its claims under a key
Mac(id, exp, key) == [id |-> id, exp |-> exp, key |-> key]

\* jwt.sign({ id }, secret, { expiresIn: '7d' }) at time t
jwtSign(id, secret, t) ==
    [id |-> id, exp |-> t + TokenTTL, sig |-> Mac(id, t + TokenTTL, secret)]

\* a word that is no JWT: undefined, or a string jwt.verify cannot decode
Malformed == [id |-> NoId, exp |-> 0, sig |-> Mac(NoId, 0, "none")]

\* jwt.verify(token, secret) at time t: the claims, or Null where it throws
jwtVerify(token, secret, t) ==
    IF token.sig = Mac(token.id, token.exp, secret) /\ t < token.exp
    THEN <<[id |-> token.id, exp |-> token.exp]>>
    ELSE Null

----------------------------------------------------------------------------
(* External primitive: the document store (Mongoose models) *)

\* a document matches an equality filter { field: value, ... }
Matches(doc, filter) == \A k \in DOMAIN filter : doc[k] = filter[k]

\* Model.find(filter): the documents matching, in natural order
find(coll, filter) == SelectSeq(coll, LAMBDA doc : Matches(doc, filter))

\* Model.findOne(filter): the first document matching, or null
findOne(coll, filter) ==
    LET m == find(coll, filter) IN IF m = <<>> THEN Null ELSE <<Head(m)>>

\* Model.deleteOne(filter): the collection without the first document matching
deleteOne(coll, filter) ==
    LET hits == {i \in 1..Len(coll) : Matches(coll[i], filter)}
    IN  IF hits = {} THEN coll
        ELSE LET k == CHOOSE i \in hits : \A j \in hits : i <= j
             IN  SubSeq(coll, 1, k - 1) \o SubSeq(coll, k + 1, Len(coll))

\* doc.save() of an existing document: the stored document with that _id is replaced
saveDoc(coll, doc) == [i \in 1..Len(coll) |-> IF coll[i]._id = doc._id THEN doc ELSE coll[i]]

\* the insert with no unique index on family_code
insertUserCodeNotUnique(coll, doc) ==
    IF \E i \in 1..Len(coll) : coll[i].username = doc.username
    THEN [ok |-> FALSE, coll |-> coll, error |-> "E11000 duplicate key: username"]
    ELSE [ok |-> TRUE, coll |-> Append(coll, doc), error |-> ""]

\* new User({...}).save(): insert under the unique indexes of UserSchema
insertUser(coll, doc) ==
    IF \E i \in 1..Len(coll) : coll[i].username = doc.username
    THEN [ok |-> FALSE, coll |-> coll, error |-> "E11000 duplicate key: username"]
    ELSE IF \E i \in 1..Len(coll) : coll[i].family_code = doc.family_code
    THEN [ok |-> FALSE, coll |-> coll, error |-> "E11000 duplicate key: family_code"]
    ELSE [ok |-> TRUE, coll |-> Append(coll, doc), error |-> ""]

----------------------------------------------------------------------------
(* Schemas *)

ClassSchema ==
    {"owner_id", "subject", "weekday", "start_hour", "start_minute",
     "end_hour", "end_minute", "is_break"}
ExamSchema == {"owner_id", "subject", "date", "time_hour", "time_minute", "syllabus"}
NoteSchema == {"owner_id", "content"}

SchemaPaths(kind) ==
    IF kind = "Class" THEN ClassSchema
    ELSE IF kind = "Exam" THEN ExamSchema
    ELSE NoteSchema

\* new Model(obj): the schema's paths of obj (strict mode) and a fresh _id
newModel(kind, obj, id) ==
    [k \in (DOMAIN obj \cap SchemaPaths(kind)) \cup {"_id"} |->
        IF k = "_id" THEN id ELSE obj[k]]

\* the spread written the other way round: { owner_id: req.userId, ...req.body }
SpreadBodyLast(body, userId) ==
    [k \in DOMAIN body \cup {"owner_id"} |-> IF k \in DOMAIN body THEN body[k] ELSE userId]

\* { ...req.body, owner_id: req.userId }
Spread(body, userId) ==
    [k \in DOMAIN body \cup {"owner_id"} |-> IF k = "owner_id" THEN userId ELSE body[k]]

----------------------------------------------------------------------------
(* Middleware *)

\* an Authorization header is the sequence of its words (authHeader.split(' '));
\* the scheme word is a string that is no JWT
NoHeader == <<>>
Bearer == Malformed

\* the middleware reading the token's claims without verifying it (jwt.decode)
authenticateDecodeOnly(authHeader) ==
    IF authHeader = NoHeader
    THEN [next |-> FALSE, userId |-> NoId, resp |-> Json(401, [error |-> "Access denied"])]
    ELSE LET token == IF Len(authHeader) >= 2 THEN authHeader[2] ELSE Malformed
         IN  IF token # Malformed
             THEN [next |-> TRUE, userId |-> token.id, resp |-> NoResp]
             ELSE [next |-> FALSE, userId |-> NoId,
                   resp |-> Json(401, [error |-> "Invalid Token"])]

\* the middleware whose catch block lets the request through: next() in place
\* of the 401
authenticateFailOpen(authHeader) ==
    IF authHeader = NoHeader
    THEN [next |-> FALSE, userId |-> NoId, resp |-> Json(401, [error |-> "Access denied"])]
    ELSE LET token == IF Len(authHeader) >= 2 THEN authHeader[2] ELSE Malformed
             verified == jwtVerify(token, JWT_SECRET, now)
         IN  IF verified # Null
             THEN [next |-> TRUE, userId |-> verified[1].id, resp |-> NoResp]
             ELSE [next |-> TRUE, userId |-> NoId, resp |-> NoResp]

\* the middleware that lets a request with no header through: next() in
\* place of the first 401
authenticateAnonymous(authHeader) ==
    IF authHeader = NoHeader
    THEN [next |-> TRUE, userId |-> NoId, resp |-> NoResp]
    ELSE LET token == IF Len(authHeader) >= 2 THEN authHeader[2] ELSE Malformed
             verified == jwtVerify(token, JWT_SECRET, now)
         IN  IF verified # Null
             THEN [next |-> TRUE, userId |-> verified[1].id, resp |-> NoResp]
             ELSE [next |-> FALSE, userId |-> NoId,
                   resp |-> Json(401, [error |-> "Invalid Token"])]

authenticate(authHeader) ==
    IF authHeader = NoHeader
    THEN [next |-> FALSE, userId |-> NoId, resp |-> Json(401, [error |-> "Access denied"])]
    ELSE LET token == IF Len(authHeader) >= 2 THEN authHeader[2] ELSE Malformed
             verified == jwtVerify(token, JWT_SECRET, now)
         IN  IF verified # Null
             THEN [next |-> TRUE, userId |-> verified[1].id, resp |-> NoResp]
             ELSE [next |-> FALSE, userId |-> NoId,
                   resp |-> Json(401, [error |-> "Invalid Token"])]

----------------------------------------------------------------------------
(* Route handlers: what each does to the store and what it answers *)

\* the registration without its existence check: the insert decides
registerHandlerNoCheck(username, password, rnd) ==
    LET hash == bcryptHash(password)
        code == generateCode(rnd)
        newUser == [_id |-> ObjectId("User", Len(users) + 1),
                    username |-> username,
                    password_hash |-> hash,
                    family_code |-> code,
                    viewers |-> <<>>]
        saved == insertUser(users, newUser)
    IN  IF saved.ok
        THEN [users |-> saved.coll,
              resp |-> Json(200, [message |-> "User created", family_code |-> code])]
        ELSE [users |-> users, resp |-> Json(500, [error |-> saved.error])]

\* POST /auth/register
registerHandler(username, password, rnd) ==
    LET existing == findOne(users, [username |-> username])
    IN  IF existing # Null
        THEN [users |-> users, resp |-> Json(400, [error |-> "Username already exists"])]
        ELSE LET hash == bcryptHash(password)
                 code == generateCode(rnd)
                 newUser == [_id |-> ObjectId("User", Len(users) + 1),
                             username |-> username,
                             password_hash |-> hash,
                             family_code |-> code,
                             viewers |-> <<>>]
                 saved == insertUser(users, newUser)
             IN  IF saved.ok
                 THEN [users |-> saved.coll,
                       resp |-> Json(200, [message |-> "User created", family_code |-> code])]
                 ELSE [users |-> users, resp |-> Json(500, [error |-> saved.error])]

\* the login that tells a wrong password from an unknown username
loginHandlerTelling(username, password) ==
    LET user == findOne(users, [username |-> username])
    IN  IF user = Null
        THEN Json(400, [error |-> "Invalid credentials"])
        ELSE IF ~bcryptCompare(password, user[1].password_hash)
        THEN Json(400, [error |-> "Wrong password"])
        ELSE Json(200, [token |-> jwtSign(user[1]._id, JWT_SECRET, now),
                        family_code |-> user[1].family_code])

\* the login that reads the code from a lookup without its filter:
\* User.findOne() in place of the user found
loginHandlerAnyCode(username, password) ==
    LET user == findOne(users, [username |-> username])
    IN  IF user = Null
        THEN Json(400, [error |-> "Invalid credentials"])
        ELSE IF ~bcryptCompare(password, user[1].password_hash)
        THEN Json(400, [error |-> "Invalid credentials"])
        ELSE Json(200, [token |-> jwtSign(user[1]._id, JWT_SECRET, now),
                        family_code |-> Head(users).family_code])

\* POST /auth/login
loginHandler(username, password) ==
    LET user == findOne(users, [username |-> username])
    IN  IF user = Null
        THEN Json(400, [error |-> "Invalid credentials"])
        ELSE IF ~bcryptCompare(password, user[1].password_hash)
        THEN Json(400, [error |-> "Invalid credentials"])
        ELSE Json(200, [token |-> jwtSign(user[1]._id, JWT_SECRET, now),
                        family_code |-> user[1].family_code])

\* user.viewers.find(v => v.name === name)
viewerExists(viewers, name) == \E i \in 1..Len(viewers) : viewers[i].name = name

\* the join without its "if new" check
joinHandlerAlwaysPush(code, name) ==
    LET user == findOne(users, [family_code |-> code])
    IN  IF user = Null
        THEN [users |-> users, resp |-> Json(404, [error |-> "Invalid Access Code"])]
        ELSE [users |->
                IF name # NoName
                THEN saveDoc(users,
                         [user[1] EXCEPT !.viewers =
                             Append(@, [name |-> name, joinedAt |-> now])])
                ELSE users,
              resp |-> Json(200, [message |-> "Joined", family_code |-> code])]

\* the join without its "if (name)" check
joinHandlerPushNameless(code, name) ==
    LET user == findOne(users, [family_code |-> code])
    IN  IF user = Null
        THEN [users |-> users, resp |-> Json(404, [error |-> "Invalid Access Code"])]
        ELSE [users |->
                IF ~viewerExists(user[1].viewers, name)
                THEN saveDoc(users,
                         [user[1] EXCEPT !.viewers =
                             Append(@, [name |-> name, joinedAt |-> now])])
                ELSE users,
              resp |-> Json(200, [message |-> "Joined", family_code |-> code])]

\* POST /auth/join
joinHandler(code, name) ==
    LET user == findOne(users, [family_code |-> code])
    IN  IF user = Null
        THEN [users |-> users, resp |-> Json(404, [error |-> "Invalid Access Code"])]
        ELSE [users |->
                IF name # NoName /\ ~viewerExists(user[1].viewers, name)
                THEN saveDoc(users,
                         [user[1] EXCEPT !.viewers =
                             Append(@, [name |-> name, joinedAt |-> now])])
                ELSE users,
              resp |-> Json(200, [message |-> "Joined", family_code |-> code])]

\* the leave that empties the list: user.viewers = []
leaveHandlerClearAll(code, name) ==
    LET user == findOne(users, [family_code |-> code])
    IN  IF user = Null
        THEN [users |-> users, resp |-> Json(404, [error |-> "Invalid Access Code"])]
        ELSE [users |->
                IF name # NoName
                THEN saveDoc(users, [user[1] EXCEPT !.viewers = <<>>])
                ELSE users,
              resp |-> Json(200, [message |-> "Left family"])]

\* POST /auth/leave
leaveHandler(code, name) ==
    LET user == findOne(users, [family_code |-> code])
    IN  IF user = Null
        THEN [users |-> users, resp |-> Json(404, [error |-> "Invalid Access Code"])]
        ELSE [users |->
                IF name # NoName
                THEN saveDoc(users,
                         [user[1] EXCEPT !.viewers =
                             SelectSeq(@, LAMBDA v : v.name # name)])
                ELSE users,
              resp |-> Json(200, [message |-> "Left family"])]

\* GET /viewers
viewersHandler(userId) ==
    LET user == findOne(users, [_id |-> userId])
    IN  IF user = Null
        THEN Json(404, [error |-> "User not found"])
        ELSE Json(200, [array |-> user[1].viewers])

\* the route without its early return on an unresolved code
publicHandlerUnchecked(kind, code) ==
    LET user == findOne(users, [family_code |-> code])
    IN  Json(200, [array |->
            IF user = Null THEN records[kind]
            ELSE find(records[kind], [owner_id |-> user[1]._id])])

\* GET /public/classes, /public/exams, /public/notes
publicHandler(kind, code) ==
    LET user == findOne(users, [family_code |-> code])
    IN  IF user = Null
        THEN Json(404, [error |-> "Invalid Access Code"])
        ELSE Json(200, [array |-> find(records[kind], [owner_id |-> user[1]._id])])

\* GET /classes, /exams, /notes
listHandler(kind, userId) ==
    Json(200, [array |-> find(records[kind], [owner_id |-> userId])])

\* POST /classes, /exams, /notes
createHandler(kind, userId, body) ==
    LET newDoc == newModel(kind, Spread(body, userId), ObjectId("Record", nextId))
    IN  [records |-> [records EXCEPT ![kind] = Append(@, newDoc)],
         resp |-> Json(200, newDoc)]

\* the delete without the owner in its filter: deleteOne({ _id: req.params.id })
deleteHandlerAnyOwner(kind, userId, id) ==
    [records |-> [records EXCEPT ![kind] = deleteOne(@, [_id |-> id])],
     resp |-> Json(200, [message |-> "Deleted"])]

\* DELETE /classes/:id, /exams/:id, /notes/:id
deleteHandler(kind, userId, id) ==
    [records |-> [records EXCEPT ![kind] =
                     deleteOne(@, [_id |-> id, owner_id |-> userId])],
     resp |-> Json(200, [message |-> "Deleted"])]

----------------------------------------------------------------------------
(* The handlers that write to the User collection, in two steps: the part   *)
(* up to the await of save(), and the save with the answer.  The first part *)
(* either answers (done) or leaves the request pending on its connection.   *)

\* POST /auth/register up to newUser.save(): the existence check, the hash
\* and the code
registerRead(username, password, rnd) ==
    LET existing == findOne(users, [username |-> username])
    IN  IF existing # Null
        THEN [done |-> TRUE, pending |-> Idle,
              resp |-> Json(400, [error |-> "Username already exists"])]
        ELSE [done |-> FALSE,
              pending |-> [op |-> "register", username |-> username,
                           password |-> password,
                           password_hash |-> bcryptHash(password),
                           family_code |-> generateCode(rnd)],
              resp |-> NoResp]

\* POST /auth/register from newUser.save() on: the insert, the answer, and
\* the catch block
registerSave(p) ==
    LET newUser == [_id |-> ObjectId("User", Len(users) + 1),
                    username |-> p.username,
                    password_hash |-> p.password_hash,
                    family_code |-> p.family_code,
                    viewers |-> <<>>]
        saved == insertUser(users, newUser)
    IN  IF saved.ok
        THEN [users |-> saved.coll,
              resp |-> Json(200, [message |-> "User created",
                                  family_code |-> p.family_code])]
        ELSE [users |-> users, resp |-> Json(500, [error |-> saved.error])]

\* POST /auth/join up to user.save(): the lookup, the "if new" check and the
\* push on the document read
joinRead(code, name) ==
    LET user == findOne(users, [family_code |-> code])
    IN  IF user = Null
        THEN [done |-> TRUE, pending |-> Idle,
              resp |-> Json(404, [error |-> "Invalid Access Code"])]
        ELSE IF name # NoName /\ ~viewerExists(user[1].viewers, name)
        THEN [done |-> FALSE,
              pending |-> [op |-> "join", code |-> code, name |-> name,
                           id |-> user[1]._id,
                           pushed |-> [name |-> name, joinedAt |-> now],
                           stale |-> FALSE],
              resp |-> NoResp]
        ELSE [done |-> TRUE, pending |-> Idle,
              resp |-> Json(200, [message |-> "Joined", family_code |-> code])]

\* the stored document of an id with its viewers changed
updateViewers(coll, id, viewers) ==
    [i \in 1..Len(coll) |->
        IF coll[i]._id = id THEN [coll[i] EXCEPT !.viewers = viewers] ELSE coll[i]]

storedViewers(coll, id) == findOne(coll, [_id |-> id])[1].viewers

\* user.save() after viewers.push(v): Mongoose sends the push as an update of
\* the stored array ($push, with $inc of __v and no condition on __v)
joinSave(p) ==
    [users |-> updateViewers(users, p.id, Append(storedViewers(users, p.id), p.pushed)),
     written |-> TRUE,
     resp |-> Json(200, [message |-> "Joined", family_code |-> p.code])]

\* POST /auth/leave up to user.save(): the lookup and the assignment of the
\* filtered list on the document read
leaveRead(code, name) ==
    LET user == findOne(users, [family_code |-> code])
    IN  IF user = Null
        THEN [done |-> TRUE, pending |-> Idle,
              resp |-> Json(404, [error |-> "Invalid Access Code"])]
        ELSE IF name # NoName
        THEN [done |-> FALSE,
              pending |-> [op |-> "leave", code |-> code, name |-> name,
                           id |-> user[1]._id,
                           viewers |-> SelectSeq(user[1].viewers, LAMBDA v : v.name # name),
                           changed |-> viewerExists(user[1].viewers, name),
                           stale |-> FALSE],
              resp |-> NoResp]
        ELSE [done |-> TRUE, pending |-> Idle,
              resp |-> Json(200, [message |-> "Left family"])]

VersionError == Json(500, [error |-> "No matching document found for id and version"])

\* the save of an assigned array with the version key switched off
leaveSaveUnversioned(p, marked) ==
    IF ~p.changed /\ ~marked
    THEN [users |-> users, written |-> FALSE,
          resp |-> Json(200, [message |-> "Left family"])]
    ELSE [users |-> updateViewers(users, p.id, p.viewers), written |-> TRUE,
          resp |-> Json(200, [message |-> "Left family"])]

\* user.save() after user.viewers = filtered: Mongoose sends the whole array
\* ($set) under the condition that __v is the one read, with $inc of __v; no
\* document matching is a VersionError, caught as a 500.  An assignment that
\* changed nothing is sent or not (marked) as Mongoose marks the path modified
\* or not.
leaveSave(p, marked) ==
    IF ~p.changed /\ ~marked
    THEN [users |-> users, written |-> FALSE,
          resp |-> Json(200, [message |-> "Left family"])]
    ELSE IF p.stale
    THEN [users |-> users, written |-> FALSE, resp |-> VersionError]
    ELSE [users |-> updateViewers(users, p.id, p.viewers), written |-> TRUE,
          resp |-> Json(200, [message |-> "Left family"])]

\* a connection whose request has been answered: the request, the status
\* answered, and whether __v of the document it read had been incremented
\* before it wrote
Answered(request, status, stale) ==
    [op |-> "answered", req |-> request, status |-> status, stale |-> stale]

\* the connections after connection conn has run its save and was answered:
\* when the save wrote the document of an id, it incremented its __v, and the
\* requests in flight that read the document before hold a version that is no
\* longer the stored one (__v only grows, and is compared for equality with
\* the one read)
afterSave(conn, id, written, answered) ==
    [c \in Conns |->
        IF c = conn THEN answered
        ELSE IF written /\ inflight[c].op \in {"join", "leave"} /\ inflight[c].id = id
        THEN [inflight[c] EXCEPT !.stale = TRUE]
        ELSE inflight[c]]

----------------------------------------------------------------------------
(* What clients can send *)

IssuedTokens == {s.token : s \in sessions}

\* tokens signed without the server's secret, naming any owner
ForgedTokens ==
    {[id |-> u, exp |-> now + TokenTTL, sig |-> Mac(u, now + TokenTTL, AttackerKey)] :
        u \in UserIds}

\* issued tokens with a claim rewritten and the signature kept
TamperedTokens ==
    {[t EXCEPT !.id = u] : t \in IssuedTokens, u \in UserIds}
        \cup {[t EXCEPT !.exp = @ + TokenTTL] : t \in IssuedTokens}

SessionHeaders == {<<Bearer, t>> : t \in IssuedTokens}
RogueHeaders ==
    {NoHeader, <<Bearer>>}
        \cup {<<t>> : t \in IssuedTokens}
        \cup {<<Bearer, t>> : t \in (ForgedTokens \cup TamperedTokens) \ IssuedTokens}
Headers == SessionHeaders \cup RogueHeaders

BaseBody == [subject |-> "Math", content |-> "Revise"]
Bodies ==
    {BaseBody}
        \cup {[subject |-> "Math", content |-> "Revise", owner_id |-> u] : u \in UserIds}

----------------------------------------------------------------------------
(* Initial state: the server listening on empty collections *)

Init ==
    /\ users = <<>>
    /\ records = [kind \in Kinds |-> <<>>]
    /\ nextId = 1
    /\ now = 0
    /\ sessions = {}
    /\ createdBy = {}
    /\ req = [route |-> "none"]
    /\ handler = "none"
    /\ resp = NoResp
    /\ inflight = [conn \in Conns |-> Idle]

----------------------------------------------------------------------------
(* Actions: one per route *)

Register(username, password, rnd) ==
    LET r == registerHandler(username, password, rnd)
    IN  /\ req' = [route |-> "POST /auth/register", username |-> username,
                   password |-> password]
        /\ handler' = "register"
        /\ users' = r.users
        /\ resp' = r.resp
        /\ UNCHANGED <<records, nextId, now, sessions, createdBy, inflight>>

\* the owner whose username and password a request carries
CredentialOwner(username, password) ==
    {users[i]._id : i \in {j \in 1..Len(users) :
        /\ users[j].username = username
        /\ bcryptCompare(password, users[j].password_hash)}}

Login(username, password) ==
    LET r == loginHandler(username, password)
        issued == IF r.status = 200
                  THEN {[token |-> r.body.token, owner |-> o] :
                           o \in CredentialOwner(username, password)}
                  ELSE {}
    IN  /\ Cardinality(sessions \cup issued) <= MaxSessions
        /\ req' = [route |-> "POST /auth/login", username |-> username,
                   password |-> password]
        /\ handler' = "login"
        /\ resp' = r
        /\ sessions' = sessions \cup issued
        /\ UNCHANGED <<users, records, nextId, now, createdBy, inflight>>

Join(code, name) ==
    LET r == joinHandler(code, name)
    IN  /\ req' = [route |-> "POST /auth/join", code |-> code, name |-> name]
        /\ handler' = "join"
        /\ users' = r.users
        /\ resp' = r.resp
        /\ UNCHANGED <<records, nextId, now, sessions, createdBy, inflight>>

Leave(code, name) ==
    LET r == leaveHandler(code, name)
    IN  /\ req' = [route |-> "POST /auth/leave", code |-> code, name |-> name]
        /\ handler' = "leave"
        /\ users' = r.users
        /\ resp' = r.resp
        /\ UNCHANGED <<records, nextId, now, sessions, createdBy, inflight>>

GetPublic(kind, code) ==
    /\ req' = [route |-> "GET /public", kind |-> kind, code |-> code]
    /\ handler' = "public"
    /\ resp' = publicHandler(kind, code)
    /\ UNCHANGED <<users, records, nextId, now, sessions, createdBy, inflight>>

GetViewers(authHeader) ==
    LET a == authenticate(authHeader)
    IN  /\ req' = [route |-> "GET /viewers", authorization |-> authHeader]
        /\ handler' = IF a.next THEN "viewers" ELSE "none"
        /\ resp' = IF a.next THEN viewersHandler(a.userId) ELSE a.resp
        /\ UNCHANGED <<users, records, nextId, now, sessions, createdBy, inflight>>

GetOwned(kind, authHeader) ==
    LET a == authenticate(authHeader)
    IN  /\ req' = [route |-> "GET", kind |-> kind, authorization |-> authHeader]
        /\ handler' = IF a.next THEN "list" ELSE "none"
        /\ resp' = IF a.next THEN listHandler(kind, a.userId) ELSE a.resp
        /\ UNCHANGED <<users, records, nextId, now, sessions, createdBy, inflight>>

\* the owners logged in by the session whose token a header carries
SessionOwner(authHeader) ==
    {s.owner : s \in {x \in sessions : Len(authHeader) >= 2 /\ x.token = authHeader[2]}}

Create(kind, authHeader, body) ==
    LET a == authenticate(authHeader)
        r == createHandler(kind, a.userId, body)
    IN  /\ a.next => nextId <= MaxRecords
        /\ req' = [route |-> "POST", kind |-> kind, authorization |-> authHeader,
                   body |-> body]
        /\ handler' = IF a.next THEN "create" ELSE "none"
        /\ records' = IF a.next THEN r.records ELSE records
        /\ nextId' = IF a.next THEN nextId + 1 ELSE nextId
        /\ resp' = IF a.next THEN r.resp ELSE a.resp
        /\ createdBy' =
              IF a.next
              THEN createdBy \cup {[id |-> ObjectId("Record", nextId),
                                     owners |-> SessionOwner(authHeader)]}
              ELSE createdBy
        /\ UNCHANGED <<users, now, sessions, inflight>>

Delete(kind, authHeader, id) ==
    LET a == authenticate(authHeader)
        r == deleteHandler(kind, a.userId, id)
    IN  /\ req' = [route |-> "DELETE", kind |-> kind, authorization |-> authHeader,
                   id |-> id]
        /\ handler' = IF a.next THEN "delete" ELSE "none"
        /\ records' = IF a.next THEN r.records ELSE records
        /\ resp' = IF a.next THEN r.resp ELSE a.resp
        /\ UNCHANGED <<users, nextId, now, sessions, createdBy, inflight>>

\* time passes
Tick ==
    /\ now < MaxTicks * TokenTTL
    /\ now' = now + TokenTTL
    /\ UNCHANGED <<users, records, nextId, sessions, createdBy, req, handler, resp, inflight>>

----------------------------------------------------------------------------
(* Actions: the writing handlers in two steps, each request on a connection *)
(* of its own                                                               *)

RegisterFind(conn, username, password, rnd) ==
    LET r == registerRead(username, password, rnd)
        request == [route |-> "POST /auth/register", username |-> username,
                    password |-> password]
    IN  /\ inflight[conn] = Idle
        /\ IF r.done
           THEN /\ req' = request
                /\ handler' = "register"
                /\ resp' = r.resp
                /\ inflight' = [inflight EXCEPT
                                   ![conn] = Answered(request, r.resp.status, FALSE)]
           ELSE /\ inflight' = [inflight EXCEPT ![conn] = r.pending]
                /\ UNCHANGED <<req, handler, resp>>
        /\ UNCHANGED <<users, records, nextId, now, sessions, createdBy>>

RegisterSave(conn) ==
    LET p == inflight[conn]
        r == registerSave(p)
        request == [route |-> "POST /auth/register", username |-> p.username,
                    password |-> p.password]
    IN  /\ p.op = "register"
        /\ req' = request
        /\ handler' = "register"
        /\ users' = r.users
        /\ resp' = r.resp
        /\ inflight' = [inflight EXCEPT ![conn] = Answered(request, r.resp.status, FALSE)]
        /\ UNCHANGED <<records, nextId, now, sessions, createdBy>>

JoinFind(conn, code, name) ==
    LET r == joinRead(code, name)
        request == [route |-> "POST /auth/join", code |-> code, name |-> name]
    IN  /\ inflight[conn] = Idle
        /\ IF r.done
           THEN /\ req' = request
                /\ handler' = "join"
                /\ resp' = r.resp
                /\ inflight' = [inflight EXCEPT
                                   ![conn] = Answered(request, r.resp.status, FALSE)]
           ELSE /\ inflight' = [inflight EXCEPT ![conn] = r.pending]
                /\ UNCHANGED <<req, handler, resp>>
        /\ UNCHANGED <<users, records, nextId, now, sessions, createdBy>>

JoinSave(conn) ==
    LET p == inflight[conn]
        r == joinSave(p)
        request == [route |-> "POST /auth/join", code |-> p.code, name |-> p.name]
    IN  /\ p.op = "join"
        /\ req' = request
        /\ handler' = "join"
        /\ users' = r.users
        /\ resp' = r.resp
        /\ inflight' = afterSave(conn, p.id, r.written,
                                 Answered(request, r.resp.status, p.stale))
        /\ UNCHANGED <<records, nextId, now, sessions, createdBy>>

LeaveFind(conn, code, name) ==
    LET r == leaveRead(code, name)
        request == [route |-> "POST /auth/leave", code |-> code, name |-> name]
    IN  /\ inflight[conn] = Idle
        /\ IF r.done
           THEN /\ req' = request
                /\ handler' = "leave"
                /\ resp' = r.resp
                /\ inflight' = [inflight EXCEPT
                                   ![conn] = Answered(request, r.resp.status, FALSE)]
           ELSE /\ inflight' = [inflight EXCEPT ![conn] = r.pending]
                /\ UNCHANGED <<req, handler, resp>>
        /\ UNCHANGED <<users, records, nextId, now, sessions, createdBy>>

LeaveSave(conn, marked) ==
    LET p == inflight[conn]
        r == leaveSave(p, marked)
        request == [route |-> "POST /auth/leave", code |-> p.code, name |-> p.name]
    IN  /\ p.op = "leave"
        /\ req' = request
        /\ handler' = "leave"
        /\ users' = r.users
        /\ resp' = r.resp
        /\ inflight' = afterSave(conn, p.id, r.written,
                                 Answered(request, r.resp.status, p.stale))
        /\ UNCHANGED <<records, nextId, now, sessions, createdBy>>

----------------------------------------------------------------------------
(* Actions: requests during which the storage layer fails.  The awaited     *)
(* storage operation rejects, nothing is written, and the handler's catch   *)
(* block, where it has one, answers.                                        *)

StorageError == "MongoNetworkError"

\* catch (e) { res.status(500).json({ error: e.message }) }
catchBlock(e) == Json(500, [error |-> e])

\* a rejection in a handler with no try/catch: the async handler's promise
\* rejects; Express 4 ignores it and sends nothing, Express 5 passes it to the
\* default error handler, which answers 500 (the version is not fixed in src/)
Uncaught == {NoResp, Json(500, [html |-> "Internal Server Error"])}

RegisterFails(username, password) ==
    /\ req' = [route |-> "POST /auth/register", username |-> username,
               password |-> password]
    /\ handler' = "register"
    /\ resp' = catchBlock(StorageError)
    /\ UNCHANGED <<users, records, nextId, now, sessions, createdBy, inflight>>

LoginFails(username, password) ==
    /\ req' = [route |-> "POST /auth/login", username |-> username,
               password |-> password]
    /\ handler' = "login"
    /\ resp' = catchBlock(StorageError)
    /\ UNCHANGED <<users, records, nextId, now, sessions, createdBy, inflight>>

JoinFails(code, name) ==
    /\ req' = [route |-> "POST /auth/join", code |-> code, name |-> name]
    /\ handler' = "join"
    /\ resp' = catchBlock(StorageError)
    /\ UNCHANGED <<users, records, nextId, now, sessions, createdBy, inflight>>

LeaveFails(code, name) ==
    /\ req' = [route |-> "POST /auth/leave", code |-> code, name |-> name]
    /\ handler' = "leave"
    /\ resp' = catchBlock(StorageError)
    /\ UNCHANGED <<users, records, nextId, now, sessions, createdBy, inflight>>

GetPublicFails(kind, code) ==
    /\ req' = [route |-> "GET /public", kind |-> kind, code |-> code]
    /\ handler' = "public"
    /\ resp' = catchBlock(StorageError)
    /\ UNCHANGED <<users, records, nextId, now, sessions, createdBy, inflight>>

GetViewersFails(authHeader) ==
    /\ authenticate(authHeader).next
    /\ req' = [route |-> "GET /viewers", authorization |-> authHeader]
    /\ handler' = "viewers"
    /\ resp' = catchBlock(StorageError)
    /\ UNCHANGED <<users, records, nextId, now, sessions, createdBy, inflight>>

\* GET /classes, /exams, /notes: await find(...) outside any try
GetOwnedFails(kind, authHeader, outcome) ==
    /\ authenticate(authHeader).next
    /\ req' = [route |-> "GET", kind |-> kind, authorization |-> authHeader]
    /\ handler' = "list"
    /\ resp' = outcome
    /\ UNCHANGED <<users, records, nextId, now, sessions, createdBy, inflight>>

\* POST /classes, /exams, /notes: await save() outside any try
CreateFails(kind, authHeader, body, outcome) ==
    /\ authenticate(authHeader).next
    /\ req' = [route |-> "POST", kind |-> kind, authorization |-> authHeader,
               body |-> body]
    /\ handler' = "create"
    /\ resp' = outcome
    /\ UNCHANGED <<users, records, nextId, now, sessions, createdBy, inflight>>

DeleteFails(kind, authHeader, id) ==
    /\ authenticate(authHeader).next
    /\ req' = [route |-> "DELETE", kind |-> kind, authorization |-> authHeader,
               id |-> id]
    /\ handler' = "delete"
    /\ resp' = catchBlock(StorageError)
    /\ UNCHANGED <<users, records, nextId, now, sessions, createdBy, inflight>>

----------------------------------------------------------------------------
(* Specifications *)

\* headers the middleware rejects in the current state
RejectedHeaders == {h \in Headers : ~authenticate(h).next}

\* the whole application: every route with every request
Next ==
    \/ \E u \in Usernames, p \in Passwords, rnd \in RandomDraws : Register(u, p, rnd)
    \/ \E u \in Usernames, p \in Passwords : Login(u, p)
    \/ \E c \in CodeInputs, n \in Names \cup {NoName} : Join(c, n)
    \/ \E c \in CodeInputs, n \in Names \cup {NoName} : Leave(c, n)
    \/ \E k \in Kinds, c \in CodeInputs : GetPublic(k, c)
    \/ \E h \in Headers : GetViewers(h)
    \/ \E k \in Kinds, h \in Headers : GetOwned(k, h)
    \/ \E k \in Kinds, h \in Headers, b \in Bodies : Create(k, h, b)
    \/ \E k \in Kinds, h \in Headers, id \in RecordIds : Delete(k, h, id)
    \/ Tick

Spec == Init /\ [][Next]_vars

\* the Resource Access Gateway: owners with a session manage their records,
\* anyone reads them through an access code (owners register with one
\* password; logins try every password)
NextGateway ==
    \/ \E u \in Usernames, rnd \in RandomDraws : Register(u, FirstPassword, rnd)
    \/ \E u \in Usernames, p \in Passwords : Login(u, p)
    \/ \E k \in Kinds, c \in CodeInputs : GetPublic(k, c)
    \/ \E k \in Kinds, h \in SessionHeaders : GetOwned(k, h)
    \/ \E k \in Kinds, h \in SessionHeaders, b \in Bodies : Create(k, h, b)
    \/ \E k \in Kinds, h \in SessionHeaders, id \in RecordIds : Delete(k, h, id)

SpecGateway == Init /\ [][NextGateway]_vars

\* the Credential Store and the Session Authenticator: accounts, tokens over
\* time, and every protected route under every Authorization header; the
\* routes that write are sent only what the middleware rejects (owners
\* register with one password; logins try every password)
NextAuth ==
    \/ \E u \in Usernames, rnd \in RandomDraws : Register(u, FirstPassword, rnd)
    \/ \E u \in Usernames, p \in Passwords : Login(u, p)
    \/ \E h \in Headers : GetViewers(h)
    \/ \E k \in Kinds, h \in Headers : GetOwned(k, h)
    \/ \E k \in Kinds, h \in RejectedHeaders : Create(k, h, BaseBody)
    \/ \E k \in Kinds, h \in RejectedHeaders : Delete(k, h, ObjectId("Record", 1))
    \/ Tick

SpecAuth == Init /\ [][NextAuth]_vars

\* the Viewer Membership Manager: viewers join and leave under access codes
NextMembers ==
    \/ \E u \in Usernames, p \in Passwords, rnd \in RandomDraws : Register(u, p, rnd)
    \/ \E u \in Usernames, p \in Passwords : Login(u, p)
    \/ \E c \in CodeInputs, n \in Names \cup {NoName} : Join(c, n)
    \/ \E c \in CodeInputs, n \in Names \cup {NoName} : Leave(c, n)
    \/ \E h \in SessionHeaders : GetViewers(h)

SpecMembers == Init /\ [][NextMembers]_vars

\* the Access Code Authority: registrations under every outcome of the
\* generator, and the logins that return the codes
NextCodes ==
    \/ \E u \in Usernames, rnd \in AllDraws : Register(u, FirstPassword, rnd)
    \/ \E u \in Usernames, p \in Passwords : Login(u, p)

SpecCodes == Init /\ [][NextCodes]_vars

\* the access codes owners hold
HeldCodes == {users[i].family_code : i \in 1..Len(users)}

\* no request has been handled in two steps yet
Quiet == \A conn \in Conns : inflight[conn] = Idle

GeneratedCodes == {generateCode(rnd) : rnd \in RandomDraws}

\* the connection an arriving request is accepted on: the first one free
\* (connections are numbered in their order of arrival)
Arriving ==
    {conn \in Conns : inflight[conn] = Idle /\ \A c \in 1..(conn - 1) : inflight[c] # Idle}

\* registrations in flight together, and the logins of the owners they create
NextRegisterRace ==
    \/ \E conn \in Arriving, u \in Usernames, p \in Passwords, rnd \in RandomDraws :
          RegisterFind(conn, u, p, rnd)
    \/ \E conn \in Conns : RegisterSave(conn)
    \/ \E u \in Usernames, p \in Passwords : Login(u, p)

SpecRegisterRace == Init /\ [][NextRegisterRace]_vars

\* joins and leaves in flight together, on the owners and viewer lists that
\* registrations and joins handled one after the other have left
NextMemberRace ==
    \/ Quiet /\ \E u \in Usernames, rnd \in RandomDraws : Register(u, FirstPassword, rnd)
    \/ Quiet /\ \E c \in HeldCodes, n \in Names : Join(c, n)
    \/ \E conn \in Arriving, c \in HeldCodes, n \in Names : JoinFind(conn, c, n)
    \/ \E conn \in Conns : JoinSave(conn)
    \/ \E conn \in Arriving, c \in HeldCodes, n \in Names : LeaveFind(conn, c, n)
    \/ \E conn \in Conns, marked \in BOOLEAN : LeaveSave(conn, marked)

SpecMemberRace == Init /\ [][NextMemberRace]_vars

\* the storage layer failing under every route, on the accounts and sessions
\* that registrations and logins have left
NextFailure ==
    \/ \E u \in Usernames, rnd \in RandomDraws : Register(u, FirstPassword, rnd)
    \/ \E u \in Usernames : Login(u, FirstPassword)
    \/ \E u \in Usernames, p \in Passwords : RegisterFails(u, p)
    \/ \E u \in Usernames, p \in Passwords : LoginFails(u, p)
    \/ \E c \in CodeInputs, n \in Names \cup {NoName} : JoinFails(c, n)
    \/ \E c \in CodeInputs, n \in Names \cup {NoName} : LeaveFails(c, n)
    \/ \E k \in Kinds, c \in CodeInputs : GetPublicFails(k, c)
    \/ \E h \in SessionHeaders : GetViewersFails(h)
    \/ \E k \in Kinds, h \in SessionHeaders, o \in Uncaught : GetOwnedFails(k, h, o)
    \/ \E k \in Kinds, h \in SessionHeaders, o \in Uncaught : CreateFails(k, h, BaseBody, o)
    \/ \E k \in Kinds, h \in SessionHeaders, id \in RecordIds : DeleteFails(k, h, id)

SpecFailure == Init /\ [][NextFailure]_vars

\* the headers of owners with a session, of clients with no header and of
\* clients with a token signed by another key
SharingHeaders ==
    SessionHeaders \cup {NoHeader} \cup {<<Bearer, t>> : t \in ForgedTokens}

\* the two access paths over the same records: owners register, log in,
\* create and delete; viewers join, leave and read under access codes; and
\* the routes that write records are also sent requests without a session
NextSharing ==
    \/ \E u \in Usernames, rnd \in RandomDraws : Register(u, FirstPassword, rnd)
    \/ \E u \in Usernames : Login(u, FirstPassword)
    \/ \E c \in GeneratedCodes, n \in Names : Join(c, n)
    \/ \E c \in GeneratedCodes, n \in Names : Leave(c, n)
    \/ \E k \in Kinds, c \in GeneratedCodes : GetPublic(k, c)
    \/ \E k \in Kinds, h \in SharingHeaders : Create(k, h, BaseBody)
    \/ \E k \in Kinds, h \in SharingHeaders, id \in RecordIds : Delete(k, h, id)

SpecSharing == Init /\ [][NextSharing]_vars

----------------------------------------------------------------------------
(* Properties *)

RegisteredIds == {users[i]._id : i \in 1..Len(users)}
StoredRecords(kind) == {records[kind][i] : i \in 1..Len(records[kind])}

\* C1: tenant isolation on create.  Every stored record, of every kind, is
\* owned by the owner whose session created it, and the record a POST has
\* just stored and answered is owned by the owner of the session that sent
\* it, whatever owner_id its payload named.
TenantIsolation ==
    /\ \A kind \in Kinds : \A d \in StoredRecords(kind) :
          \E c \in createdBy : c.id = d._id /\ c.owners = {d.owner_id}
    /\ handler = "create" =>
          /\ resp.status = 200
          /\ SessionOwner(req.authorization) = {resp.body.owner_id}
          /\ resp.body \in StoredRecords(req.kind)

\* a POST whose payload named another registered owner has been stored
ForgedCreateStored ==
    /\ handler = "create"
    /\ "owner_id" \in DOMAIN req.body
    /\ req.body.owner_id \in RegisteredIds
    /\ req.body.owner_id # resp.body.owner_id
    /\ resp.body \in StoredRecords(req.kind)

\* the records of a kind an owner would be listed
OwnedBy(kind, owner) == SelectSeq(records[kind], LAMBDA d : d.owner_id = owner)

\* C2: delete is owner-scoped and silent.  A DELETE by an authenticated owner
\* answers the acknowledgement; when no record of that kind has both the id
\* asked for and that owner (the id belongs to another owner, or to nothing),
\* every collection is left as it was; a record disappears only if it has the
\* id asked for and belongs to the authenticated owner, and the lists of every
\* other owner are the same as before.
DeleteOwnerScoped ==
    [][(/\ req'.route = "DELETE"
        /\ Delete(req'.kind, req'.authorization, req'.id)
        /\ authenticate(req'.authorization).next) =>
            \A A \in SessionOwner(req'.authorization) :
                /\ resp' = Json(200, [message |-> "Deleted"])
                /\ (~\E d \in StoredRecords(req'.kind) :
                        d._id = req'.id /\ d.owner_id = A)
                      => records' = records
                /\ \A k \in Kinds : \A d \in StoredRecords(k) :
                      d \notin StoredRecords(k)' =>
                          k = req'.kind /\ d._id = req'.id /\ d.owner_id = A
                /\ \A B \in UserIds \ {A} : \A k \in Kinds :
                      OwnedBy(k, B)' = OwnedBy(k, B)]_vars

\* an owner has just asked to delete a record of another owner, was answered
\* the acknowledgement, and the record is still stored
ForeignDeleteIgnored ==
    /\ handler = "delete"
    /\ resp = Json(200, [message |-> "Deleted"])
    /\ \E d \in StoredRecords(req.kind) :
          /\ d._id = req.id
          /\ SessionOwner(req.authorization) # {}
          /\ d.owner_id \notin SessionOwner(req.authorization)

NotFound == Json(404, [error |-> "Invalid Access Code"])

\* C3: unknown codes on the public routes.  In every reachable state and for
\* every record kind, a code that is the access code of no owner is answered
\* 404 "Invalid Access Code", a response that carries no record; and the last
\* public request, if its code is held by no owner, was answered so.
PublicUnknownCodeNotFound ==
    /\ \A kind \in Kinds : \A code \in CodeInputs \ HeldCodes :
          /\ publicHandler(kind, code) = NotFound
          /\ "array" \notin DOMAIN publicHandler(kind, code).body
    /\ (handler = "public" /\ req.code \notin HeldCodes) => resp = NotFound

\* a public list was asked with a code no owner holds and answered 404 while
\* an owner and a record of that kind exist
UnknownCodeRefused ==
    /\ handler = "public"
    /\ req.code \notin HeldCodes
    /\ req.code # EmptyCode
    /\ resp = NotFound
    /\ users # <<>>
    /\ records[req.kind] # <<>>

\* C4: the public view tracks the owner's records.  In every reachable state,
\* for every owner and record kind, the public list under the owner's access
\* code answers 200 with exactly the records of that kind whose owner_id is
\* that owner, the same list the owner's own GET answers; so a record just
\* created is in it and a record just deleted by its owner is not.
PublicViewTracksOwner ==
    /\ \A i \in 1..Len(users) : \A kind \in Kinds :
          /\ publicHandler(kind, users[i].family_code)
                = Json(200, [array |-> OwnedBy(kind, users[i]._id)])
          /\ publicHandler(kind, users[i].family_code) = listHandler(kind, users[i]._id)
    /\ handler = "create" =>
          \A i \in 1..Len(users) : users[i]._id \in SessionOwner(req.authorization) =>
              \E n \in 1..Len(publicHandler(req.kind, users[i].family_code).body.array) :
                  publicHandler(req.kind, users[i].family_code).body.array[n] = resp.body
    /\ handler = "delete" =>
          \A i \in 1..Len(users) : users[i]._id \in SessionOwner(req.authorization) =>
              \A n \in 1..Len(publicHandler(req.kind, users[i].family_code).body.array) :
                  publicHandler(req.kind, users[i].family_code).body.array[n]._id # req.id

\* the second of two owners has just deleted a record it had created
OwnRecordDeleted ==
    /\ handler = "delete"
    /\ Len(users) = 2
    /\ SessionOwner(req.authorization) = {users[2]._id}
    /\ \E c \in createdBy :
          /\ c.id = req.id
          /\ c.owners = SessionOwner(req.authorization)
          /\ \A d \in StoredRecords(req.kind) : d._id # req.id

\* the documents a response body carries
BodyDocs(body) ==
    IF "array" \in DOMAIN body THEN {body.array[n] : n \in 1..Len(body.array)} ELSE {}

\* a response body holds an owner's id, a password hash or a viewer roster
ExposesOwner(body) ==
    \/ \E f \in {"password_hash", "viewers", "username"} : f \in DOMAIN body
    \/ \E f \in {"_id", "owner_id"} : f \in DOMAIN body /\ body[f] \in RegisteredIds
    \/ \E d \in BodyDocs(body) :
          \/ \E f \in {"password_hash", "viewers", "username"} : f \in DOMAIN d
          \/ \E f \in {"_id", "owner_id"} : f \in DOMAIN d /\ d[f] \in RegisteredIds

CodeRoutes == {"POST /auth/join", "POST /auth/leave", "GET /public"}

\* C5: no response on the code-based path (join, leave, the public lists)
\* contains the resolved owner's id, password hash or viewer roster.
CodePathHidesOwner == req.route \in CodeRoutes => ~ExposesOwner(resp.body)

RegisteredNames == {users[i].username : i \in 1..Len(users)}

\* C6: registering a username that already belongs to an owner answers 400
\* "Username already exists" and leaves the User collection as it was: no
\* owner is added and no password hash, access code or viewer list changes.
DuplicateUsernameRefused ==
    [][(/\ req'.route = "POST /auth/register"
        /\ \E rnd \in RandomDraws : Register(req'.username, req'.password, rnd)
        /\ req'.username \in RegisteredNames) =>
            /\ resp' = Json(400, [error |-> "Username already exists"])
            /\ users' = users]_vars

\* a registration under the username of an owner who has viewers, with
\* another password than that owner's, has just been refused
DuplicateRefusedSeen ==
    /\ handler = "register"
    /\ resp = Json(400, [error |-> "Username already exists"])
    /\ \E i \in 1..Len(users) :
          /\ users[i].username = req.username
          /\ users[i].password_hash # bcryptHash(req.password)
          /\ users[i].viewers # <<>>

\* C7: login failures are indistinguishable.  In every reachable state, a
\* login with the username of an owner and a password that is not that
\* owner's, and a login with a username no owner has, are answered the same
\* response, 400 "Invalid credentials", whose only field is the error: no
\* token and no access code.
LoginFailuresIndistinguishable ==
    /\ \A u1 \in Usernames, u2 \in Usernames : \A p1 \in Passwords, p2 \in Passwords :
          (/\ \E i \in 1..Len(users) :
                  /\ users[i].username = u1
                  /\ users[i].password_hash # bcryptHash(p1)
           /\ u2 \notin RegisteredNames) =>
              /\ loginHandler(u1, p1) = loginHandler(u2, p2)
              /\ loginHandler(u1, p1) = Json(400, [error |-> "Invalid credentials"])
    /\ (handler = "login" /\ CredentialOwner(req.username, req.password) = {}) =>
          /\ resp = Json(400, [error |-> "Invalid credentials"])
          /\ DOMAIN resp.body = {"error"}

\* a login with a registered username and a wrong password has just failed
\* while another username has no owner
WrongPasswordRefused ==
    /\ handler = "login"
    /\ resp.status = 400
    /\ req.username \in RegisteredNames
    /\ Usernames \ RegisteredNames # {}

ProtectedRoutes == {"GET /viewers", "GET", "POST", "DELETE"}
ProtectedHandlers == {"viewers", "list", "create", "delete"}

\* C8: a session token binds exactly the owner it was issued for.  In every
\* reachable state, the token of every session handed out by a login
\* authenticates, whenever it does (until it expires it does), as the owner
\* who logged in and as nobody else; a token the signer did not issue (signed
\* with another key, or an issued token with a claim rewritten) authenticates
\* as nobody; and a protected handler that has run was sent an issued token
\* and answered for the owner of that session.
TokenBindsOwner ==
    /\ \A s \in sessions :
          LET a == authenticate(<<Bearer, s.token>>)
          IN  /\ a.next => a.userId = s.owner
              /\ now < s.token.exp => a.next
    /\ \A t \in (ForgedTokens \cup TamperedTokens) \ IssuedTokens :
          ~authenticate(<<Bearer, t>>).next
    /\ handler \in ProtectedHandlers =>
          /\ SessionOwner(req.authorization) # {}
          /\ \A A \in SessionOwner(req.authorization) :
                /\ handler = "viewers" => resp = viewersHandler(A)
                /\ handler = "list" => resp = Json(200, [array |-> OwnedBy(req.kind, A)])
                /\ handler = "create" => resp.body.owner_id = A

\* the second owner's token has just been accepted on GET /viewers while the
\* first owner also holds a session
SecondOwnerAuthenticated ==
    /\ handler = "viewers"
    /\ Len(users) = 2
    /\ SessionOwner(req.authorization) = {users[2]._id}
    /\ \E s \in sessions : s.owner = users[1]._id
    /\ resp = Json(200, [array |-> users[2].viewers])

\* a header carries a token the signer issued and that has not expired
ValidToken(h) == Len(h) >= 2 /\ h[2] \in IssuedTokens /\ now < h[2].exp

\* the step is the handling of the request req' on a protected route
ProtectedStep ==
    \/ req'.route = "GET /viewers" /\ GetViewers(req'.authorization)
    \/ req'.route = "GET" /\ GetOwned(req'.kind, req'.authorization)
    \/ req'.route = "POST" /\ Create(req'.kind, req'.authorization, req'.body)
    \/ req'.route = "DELETE" /\ Delete(req'.kind, req'.authorization, req'.id)

\* C9: on every protected route, a request without an Authorization header is
\* answered 401 "Access denied", a request whose header carries no token, a
\* malformed, forged, tampered or expired token is answered 401 "Invalid
\* Token", the two answers differ, and in both cases no handler runs and the
\* collections are left as they were.
UnauthenticatedRejected ==
    [][ProtectedStep =>
          /\ req'.authorization = NoHeader =>
                /\ resp' = Json(401, [error |-> "Access denied"])
                /\ handler' = "none"
                /\ UNCHANGED <<users, records, nextId, sessions, createdBy>>
          /\ (req'.authorization # NoHeader /\ ~ValidToken(req'.authorization)) =>
                /\ resp' = Json(401, [error |-> "Invalid Token"])
                /\ resp' # Json(401, [error |-> "Access denied"])
                /\ handler' = "none"
                /\ UNCHANGED <<users, records, nextId, sessions, createdBy>>]_vars

\* a POST carrying an issued token that has expired has just been answered
\* "Invalid Token" without reaching its handler
ExpiredTokenRejected ==
    /\ req.route = "POST"
    /\ Len(req.authorization) = 2
    /\ req.authorization[2] \in IssuedTokens
    /\ now >= req.authorization[2].exp
    /\ handler = "none"
    /\ resp = Json(401, [error |-> "Invalid Token"])

\* how many entries of a viewer list carry a name
NameCount(viewers, name) ==
    Cardinality({n \in 1..Len(viewers) : viewers[n].name = name})

\* C10: join is idempotent.  A join with a code some owner holds and a
\* non-empty name answers 200 "Joined" and leaves exactly one entry with that
\* name in that owner's viewer list; when the name was already there the
\* User collection is left as it was.
JoinIdempotent ==
    [][(/\ req'.route = "POST /auth/join"
        /\ Join(req'.code, req'.name)
        /\ req'.name # NoName
        /\ req'.code \in HeldCodes) =>
            /\ resp' = Json(200, [message |-> "Joined", family_code |-> req'.code])
            /\ \A i \in 1..Len(users') :
                  users'[i].family_code = req'.code =>
                      NameCount(users'[i].viewers, req'.name) = 1
            /\ \A i \in 1..Len(users) :
                  (/\ users[i].family_code = req'.code
                   /\ NameCount(users[i].viewers, req'.name) >= 1) => users' = users]_vars

\* a join has just been answered "Joined" for a name that was already in the
\* list before another viewer joined: the call was a repeated one
RepeatedJoinSeen ==
    /\ handler = "join"
    /\ resp.status = 200
    /\ \E i \in 1..Len(users) :
          /\ users[i].family_code = req.code
          /\ Len(users[i].viewers) = 2
          /\ users[i].viewers[1].name = req.name
          /\ users[i].viewers[2].name # req.name

\* a viewer list without its entries of a name, the others in their order
RECURSIVE WithoutName(_, _)
WithoutName(viewers, name) ==
    IF viewers = <<>> THEN <<>>
    ELSE IF Head(viewers).name = name THEN WithoutName(Tail(viewers), name)
    ELSE <<Head(viewers)>> \o WithoutName(Tail(viewers), name)

AnonymousPeek ==
    [][(\/ /\ req'.route = "POST /auth/join"
           /\ Join(req'.code, NoName)
        \/ /\ req'.route = "POST /auth/leave"
           /\ Leave(req'.code, NoName)) =>
            /\ users' = users
            /\ req'.code \notin HeldCodes => resp' = NotFound
            /\ (req'.code \in HeldCodes /\ req'.route = "POST /auth/join") =>
                  resp' = Json(200, [message |-> "Joined", family_code |-> req'.code])
            /\ (req'.code \in HeldCodes /\ req'.route = "POST /auth/leave") =>
                  resp' = Json(200, [message |-> "Left family"])]_vars

\* a join without a name has just been answered "Joined" under the code of an
\* owner who has viewers
NamelessJoinSeen ==
    /\ handler = "join"
    /\ req.name = NoName
    /\ resp.status = 200
    /\ \E i \in 1..Len(users) :
          users[i].family_code = req.code /\ users[i].viewers # <<>>

\* C13: a registration under a username no owner has always ends by storing a
\* new owner with an empty viewer list and an access code no other owner
\* holds, also when the code first generated is the code of an existing owner
\* (another code is then generated).
RegistrationAlwaysPersists ==
    [][(/\ req'.route = "POST /auth/register"
        /\ \E rnd \in RandomDraws : Register(req'.username, req'.password, rnd)
        /\ req'.username \notin RegisteredNames) =>
            /\ resp'.status = 200
            /\ Len(users') = Len(users) + 1
            /\ SubSeq(users', 1, Len(users)) = users
            /\ users'[Len(users')].username = req'.username
            /\ users'[Len(users')].viewers = <<>>
            /\ users'[Len(users')].family_code \notin HeldCodes]_vars

\* uppercase letters and digits without I, O, 0 and 1
Letters ==
    {"A", "B", "C", "D", "E", "F", "G", "H", "I", "J", "K", "L", "M",
     "N", "O", "P", "Q", "R", "S", "T", "U", "V", "W", "X", "Y", "Z"}
Digits == {"0", "1", "2", "3", "4", "5", "6", "7", "8", "9"}
Alphabet == (Letters \cup Digits) \ {"I", "O", "0", "1"}

\* the access codes successful registrations have returned and stored
ReturnedCode == handler = "register" /\ resp.status = 200
CodeWellFormed(code) ==
    /\ Len(code) = 5
    /\ \A i \in 1..Len(code) : code[i] \in Alphabet

\* C14 as stated: every access code returned by a successful registration has
\* length 5 and each of its characters belongs to the alphabet of uppercase
\* letters and digits without I, O, 0 and 1, which has 33 symbols.
CodeFromAlphabetOf33 ==
    ReturnedCode =>
        /\ CodeWellFormed(resp.body.family_code)
        /\ Cardinality(Alphabet) = 33

\* C14 amended: every access code returned by a successful registration, and
\* every code stored, has length 5 and each of its characters belongs to the
\* alphabet of uppercase letters and digits without I, O, 0 and 1, which has
\* 32 symbols.
CodeFromAlphabetOf32 ==
    /\ ReturnedCode => CodeWellFormed(resp.body.family_code)
    /\ \A c \in HeldCodes : CodeWellFormed(c)
    /\ Cardinality(Alphabet) = 32

\* a second registration has just returned a code that starts with the last
\* symbol of the alphabet's letters
LateSymbolReturned ==
    /\ ReturnedCode
    /\ Len(users) = 2
    /\ resp.body.family_code = users[2].family_code
    /\ resp.body.family_code[1] = "Z"

\* how many owners have a username
OwnersNamed(coll, username) ==
    Cardinality({i \in 1..Len(coll) : coll[i].username = username})

\* C15: the registration race.  When the save of a registration that passed
\* the existence check runs, one owner with its username is stored after it;
\* and when another registration has stored the username in between, the
\* request is answered 400 "Username already exists", not a server error, and
\* the User collection is left as it was.
RaceLoserToldDuplicate ==
    [][\A conn \in Conns :
          (inflight[conn].op = "register" /\ RegisterSave(conn)) =>
              /\ OwnersNamed(users', inflight[conn].username) = 1
              /\ inflight[conn].username \in RegisteredNames =>
                    /\ resp' = Json(400, [error |-> "Username already exists"])
                    /\ users' = users]_vars

\* C16: viewer names are unique within each owner's list, in every reachable
\* state, also while joins with the same code and name are in flight together.
ViewerNamesUnique ==
    \A i \in 1..Len(users) : \A n \in Names : NameCount(users[i].viewers, n) <= 1

\* connection a was answered 200 to a join and connection b to a join or a
\* leave, under the same code and with different names, and no other request
\* was handled in two steps
SucceededTogether(a, b) ==
    /\ a # b
    /\ inflight[a].op = "answered"
    /\ inflight[b].op = "answered"
    /\ \A c \in Conns \ {a, b} : inflight[c] = Idle
    /\ inflight[a].req.route = "POST /auth/join"
    /\ inflight[b].req.route \in {"POST /auth/join", "POST /auth/leave"}
    /\ inflight[a].status = 200
    /\ inflight[b].status = 200
    /\ inflight[a].req.code = inflight[b].req.code
    /\ inflight[a].req.name # inflight[b].req.name

\* C17: no lost update.  When a join of X and a leave of Y, or two joins of X
\* and Y, with X different from Y, were in flight against the same owner and
\* both were answered 200, the owner's viewer list holds X, and holds no Y
\* after the leave and Y after the join: no write undid the other's.
NoLostUpdate ==
    \A a \in Conns, b \in Conns :
        SucceededTogether(a, b) =>
            \A i \in 1..Len(users) :
                users[i].family_code = inflight[a].req.code =>
                    /\ NameCount(users[i].viewers, inflight[a].req.name) >= 1
                    /\ inflight[b].req.route = "POST /auth/leave" =>
                          NameCount(users[i].viewers, inflight[b].req.name) = 0
                    /\ inflight[b].req.route = "POST /auth/join" =>
                          NameCount(users[i].viewers, inflight[b].req.name) >= 1

\* a join of X was answered 200 after the document it had read was written by
\* a leave of Y, answered 200 too: the list, which held Y, holds X alone
JoinSurvivedLeave ==
    \E a \in Conns, b \in Conns :
        /\ SucceededTogether(a, b)
        /\ inflight[b].req.route = "POST /auth/leave"
        /\ inflight[a].stale
        /\ \E i \in 1..Len(users) :
              /\ users[i].family_code = inflight[a].req.code
              /\ Len(users[i].viewers) = 1
              /\ users[i].viewers[1].name = inflight[a].req.name

\* the step is the handling of the request req' while the storage layer fails
StorageFailureStep ==
    \/ req'.route = "POST /auth/register" /\ RegisterFails(req'.username, req'.password)
    \/ req'.route = "POST /auth/login" /\ LoginFails(req'.username, req'.password)
    \/ req'.route = "POST /auth/join" /\ JoinFails(req'.code, req'.name)
    \/ req'.route = "POST /auth/leave" /\ LeaveFails(req'.code, req'.name)
    \/ req'.route = "GET /public" /\ GetPublicFails(req'.kind, req'.code)
    \/ req'.route = "GET /viewers" /\ GetViewersFails(req'.authorization)
    \/ req'.route = "GET" /\ GetOwnedFails(req'.kind, req'.authorization, resp')
    \/ req'.route = "POST" /\ CreateFails(req'.kind, req'.authorization, req'.body, resp')
    \/ req'.route = "DELETE" /\ DeleteFails(req'.kind, req'.authorization, req'.id)

\* C18: every request during which the storage layer fails, on every route
\* that touches storage (the owner's GET and POST routes included), is
\* answered, and answered the generic server error (status 500), not a domain
\* error.
StorageFailureAnswered ==
    [][StorageFailureStep => (resp' # NoResp /\ resp'.status = 500)]_vars

\* C19: the viewer path is read-only over records.  A join, a leave, a public
\* list and a request the middleware rejects leave every record collection as
\* it was; a stored record stays stored, with its owner and its fields, unless
\* the step is a DELETE of its id by the session of its owner; and a record
\* appears only by a POST of the session of the owner it carries.
RecordsOnlyByOwners ==
    [][/\ (req'.route \in CodeRoutes \/ handler' = "none") => records' = records
       /\ \A kind \in Kinds : \A d \in StoredRecords(kind) :
             \/ d \in StoredRecords(kind)'
             \/ /\ handler' = "delete"
                /\ req'.kind = kind
                /\ req'.id = d._id
                /\ SessionOwner(req'.authorization) = {d.owner_id}
       /\ \A kind \in Kinds : \A d \in StoredRecords(kind)' :
             \/ d \in StoredRecords(kind)
             \/ /\ handler' = "create"
                /\ req'.kind = kind
                /\ SessionOwner(req'.authorization) = {d.owner_id}]_vars

\* a DELETE without a session has just been refused for the id of a stored
\* record whose owner has a viewer
AnonymousDeleteRefused ==
    /\ req.route = "DELETE"
    /\ handler = "none"
    /\ req.authorization = NoHeader
    /\ \E d \in StoredRecords(req.kind) :
          /\ d._id = req.id
          /\ \E i \in 1..Len(users) :
                users[i]._id = d.owner_id /\ users[i].viewers # <<>>

\* C20: an owner's access code never changes.  No step removes an owner or
\* changes the id, the username or the access code of one; a successful
\* registration stores for the new owner the code it returns; a successful
\* login returns the code stored for the owner who logged in; and no two
\* owners hold the same code.
CodeNeverChanges ==
    [][/\ Len(users') >= Len(users)
       /\ \A i \in 1..Len(users) :
             /\ users'[i]._id = users[i]._id
             /\ users'[i].username = users[i].username
             /\ users'[i].family_code = users[i].family_code
       /\ (handler' = "register" /\ resp'.status = 200) =>
             /\ Len(users') = Len(users) + 1
             /\ users'[Len(users')].username = req'.username
             /\ users'[Len(users')].family_code = resp'.body.family_code
       /\ (handler' = "login" /\ resp'.status = 200) =>
             \A i \in 1..Len(users') :
                 users'[i]._id \in CredentialOwner(req'.username, req'.password) =>
                     resp'.body.family_code = users'[i].family_code
       /\ (handler' = "login" /\ resp'.status = 200) =>
             CredentialOwner(req'.username, req'.password) # {}
       /\ \A i \in 1..Len(users'), j \in 1..Len(users') :
             i # j => users'[i].family_code # users'[j].family_code]_vars

\* the second owner has just logged in and was returned its code while it has
\* a viewer and a record of its own
SecondOwnerCodeReturned ==
    /\ handler = "login"
    /\ resp.status = 200
    /\ Len(users) = 2
    /\ users[2].username = req.username
    /\ resp.body.family_code = users[2].family_code
    /\ users[2].viewers # <<>>
    /\ \E kind \in Kinds : \E d \in StoredRecords(kind) : d.owner_id = users[2]._id

====
